---- MODULE Spec2Model ----
(***************************************************************************)
(* Meme Dubber (src/meme_dubber.py): process_meme runs the pipeline        *)
(* image -> extract_text_from_meme -> generate_audio_gtts /                *)
(* generate_audio_chattts -> (status text, audio path).                    *)
(*                                                                         *)
(* Python values are records [t, s, n]: a str carries its characters in s  *)
(* (a sequence of one-character strings), None and numbers are values of   *)
(* their own.  A status message is a sequence of pieces: the literal parts *)
(* of the f-strings, each one piece, and the characters of the formatted   *)
(* values.                                                                 *)
(***************************************************************************)
EXTENDS Naturals, Sequences, FiniteSets, TLC

\* Longest string the model service is taken to return in a JSON field.
MaxLen == 2

Procs == {1, 2}

----------------------------------------------------------------------------
\* Python values

PyStr(chars) == [t |-> "str", s |-> chars, n |-> 0]
PyNum(k) == [t |-> "num", s |-> <<>>, n |-> k]
PyNone == [t |-> "none", s |-> <<>>, n |-> 0]
\* A key a JSON object does not hold.
Missing == [t |-> "missing", s |-> <<>>, n |-> 0]

Whitespace == {" "}
Alphabet == {" ", "a"}

RECURSIVE StringsOfLen(_)
StringsOfLen(k) ==
    IF k = 0 THEN {<<>>}
    ELSE {Append(s, c) : s \in StringsOfLen(k - 1), c \in Alphabet}

Strings == UNION {StringsOfLen(k) : k \in 0..MaxLen}

En == <<"e", "n">>
Ja == <<"j", "a">>
Zh == <<"z", "h">>
Xx == <<"x", "x">>

\* str.strip(): leading and trailing whitespace removed.
RECURSIVE LStrip(_)
LStrip(s) ==
    IF s = <<>> THEN s
    ELSE IF Head(s) \in Whitespace THEN LStrip(Tail(s)) ELSE s

RECURSIVE RStrip(_)
RStrip(s) ==
    IF s = <<>> THEN s
    ELSE IF s[Len(s)] \in Whitespace THEN RStrip(SubSeq(s, 1, Len(s) - 1)) ELSE s

Strip(s) == RStrip(LStrip(s))

\* bool(v), as `not v` reads it.
Truthy(v) ==
    CASE v.t = "str" -> v.s # <<>>
      [] v.t = "num" -> v.n # 0
      [] OTHER -> FALSE

\* format(v) inside an f-string.
Fmt(v) ==
    CASE v.t = "str" -> v.s
      [] v.t = "num" -> <<ToString(v.n)>>
      [] OTHER -> <<"N", "o", "n", "e">>

\* dict.get(key, default) on a parsed JSON object.
Get(obj, key, default) == IF obj[key].t = "missing" THEN default ELSE obj[key]

----------------------------------------------------------------------------
\* What the model service can answer.

TextValues == {Missing, PyNone, PyNum(0), PyNum(5)} \cup {PyStr(s) : s \in Strings}
LanguageValues == {Missing, PyNone, PyStr(Ja), PyStr(Xx)}
LanguageCodeValues == {Missing, PyStr(Zh)}

EmptyObject == [text |-> Missing, language |-> Missing, language_code |-> Missing]

JsonObjects == [text : TextValues, language : LanguageValues,
                language_code : LanguageCodeValues]

\* api_error: the request (or the PNG encoding) raises; malformed: response.text
\* is not JSON; nonobject: JSON, but a list, a number, a string or null.
Failures == {[kind |-> k, obj |-> EmptyObject] : k \in {"api_error", "malformed", "nonobject"}}

ModelResponses == Failures \cup {[kind |-> "object", obj |-> o] : o \in JsonObjects}

\* The answers drawn when invocations overlap: two captions, a blank one, a failure.
OverlapResponses ==
    {[kind |-> "api_error", obj |-> EmptyObject]}
    \cup {[kind |-> "object", obj |-> [EmptyObject EXCEPT !.text = PyStr(s)]] :
            s \in {<<>>, <<"a">>, <<"a", "a">>}}

NoResponse == [kind |-> "none", obj |-> EmptyObject]

----------------------------------------------------------------------------
\* extract_text_from_meme

\* ExtractBody without the whitespace test of line 99.
ExtractBodyNoBlankTest(resp) ==
    IF resp.kind # "object"
    THEN [exc |-> TRUE, text |-> PyNone, lang |-> PyNone]
    ELSE LET meme_text == Get(resp.obj, "text", PyStr(<<>>))
             lang_code == Get(resp.obj, "language", PyStr(En))
         IN  IF ~Truthy(meme_text)
             THEN [exc |-> FALSE, text |-> PyNone, lang |-> PyStr(En)]
             ELSE [exc |-> FALSE, text |-> meme_text, lang |-> lang_code]

\* The try body, lines 39-103: [exc, text, lang].
ExtractBody(resp) ==
    IF resp.kind # "object"
    THEN [exc |-> TRUE, text |-> PyNone, lang |-> PyNone]
    ELSE LET meme_text == Get(resp.obj, "text", PyStr(<<>>))
             lang_code == Get(resp.obj, "language", PyStr(En))
         IN  IF ~Truthy(meme_text)
             THEN [exc |-> FALSE, text |-> PyNone, lang |-> PyStr(En)]
             ELSE IF meme_text.t # "str"
             THEN [exc |-> TRUE, text |-> PyNone, lang |-> PyNone]
             ELSE IF Strip(meme_text.s) = <<>>
             THEN [exc |-> FALSE, text |-> PyNone, lang |-> PyStr(En)]
             ELSE [exc |-> FALSE, text |-> meme_text, lang |-> lang_code]

\* extract_text_from_meme without its except clause.
extract_text_from_meme_uncaught(resp) ==
    LET b == ExtractBody(resp)
    IN  [raised |-> b.exc, text |-> b.text, lang |-> b.lang]

\* The whole function: [raised, text, lang]; raised is an exception leaving it.
extract_text_from_meme(resp) ==
    LET b == ExtractBody(resp)
    IN  IF b.exc
        THEN [raised |-> FALSE, text |-> PyNone, lang |-> PyStr(En)]
        ELSE [raised |-> FALSE, text |-> b.text, lang |-> b.lang]

----------------------------------------------------------------------------
\* The audio files and the synthesizers

GttsPath == "meme_audio_gtts.mp3"
ChatttsPath == "meme_audio_chattts.wav"
Paths == {GttsPath, ChatttsPath}
NoAudio == "None"

Absent == [exists |-> FALSE, data |-> <<>>]
File(bytes) == [exists |-> TRUE, data |-> bytes]
\* The MP3 stream of a caption; the WAV file of a caption (header, then samples).
Mp3(text) == <<"mp3">> \o text.s
Wav(text) == <<"RIFF">> \o text.s

\* Languages the cloud service speaks (gTTS raises ValueError for any other lang).
GttsLanguages == {PyStr(En), PyStr(Ja), PyStr(Zh)}

\* What the world outside the code decides for one synthesizer call:
\*   dep   whether the backend's packages import;
\*   save  "ok": the write returns and the file holds the audio;
\*         "empty": the write returns having written no byte (the cloud
\*            service streamed nothing; a WAV file always has its header);
\*         "raise": synthesis or the write raises before the file is opened;
\*         "raise_open": it raises with the file opened and nothing written;
\*         "no_file": the write returns and no file is there afterwards.
SaveOutcomes == {"ok", "empty", "raise", "raise_open", "no_file"}
Envs == [dep : BOOLEAN, save : SaveOutcomes]
NoEnv == [dep |-> TRUE, save |-> "none"]

\* generate_audio_gtts, the try body through tts.save (lines 124-139), on the file
\* `old`: [exc, desc, file].
generate_audio_gtts_save(text, lang, env, old) ==
    IF ~env.dep
    THEN [exc |-> TRUE, desc |-> "No module named 'gtts'", file |-> old]
    ELSE IF lang \notin GttsLanguages
    THEN [exc |-> TRUE, desc |-> "Language not supported", file |-> old]
    ELSE CASE env.save = "ok" -> [exc |-> FALSE, desc |-> "", file |-> File(Mp3(text))]
           [] env.save = "empty" -> [exc |-> FALSE, desc |-> "", file |-> File(<<>>)]
           [] env.save = "raise" -> [exc |-> TRUE, desc |-> "gTTSError", file |-> old]
           [] env.save = "raise_open" -> [exc |-> TRUE, desc |-> "gTTSError", file |-> File(<<>>)]
           [] OTHER -> [exc |-> FALSE, desc |-> "", file |-> Absent]

\* generate_audio_chattts, the try body through sf.write (lines 169-188); lang_code
\* is not used.
generate_audio_chattts_save(text, lang, env, old) ==
    IF ~env.dep
    THEN [exc |-> TRUE, desc |-> "No module named 'ChatTTS'", file |-> old]
    ELSE CASE env.save \in {"ok", "empty"} -> [exc |-> FALSE, desc |-> "", file |-> File(Wav(text))]
           [] env.save = "raise" -> [exc |-> TRUE, desc |-> "RuntimeError", file |-> old]
           [] env.save = "raise_open" -> [exc |-> TRUE, desc |-> "RuntimeError", file |-> File(<<>>)]
           [] OTHER -> [exc |-> FALSE, desc |-> "", file |-> Absent]

\* generate_audio_gtts returning its path without looking for the file.
generate_audio_gtts_verify_unchecked(file) == "meme_audio_gtts.mp3"

\* generate_audio_chattts returning the other backend's file name.
generate_audio_chattts_verify_wrong_name(file) ==
    IF file.exists THEN "meme_audio_gtts.mp3" ELSE "None"

\* Lines 141-148 and 190-197: the path when os.path.exists, else None.
generate_audio_gtts_verify(file) == IF file.exists THEN GttsPath ELSE NoAudio

generate_audio_chattts_verify(file) == IF file.exists THEN ChatttsPath ELSE NoAudio

\* generate_audio_chattts with an except clause that raises again.
generate_audio_chattts_except_reraise(desc) ==
    [raised |-> TRUE, desc |-> desc, ret |-> "None"]

\* Lines 150-154 and 199-203: what the call gives when the try body raised `desc`:
\* [raised, desc, ret].
generate_audio_gtts_except(desc) == [raised |-> FALSE, desc |-> "", ret |-> NoAudio]

generate_audio_chattts_except(desc) == [raised |-> FALSE, desc |-> "", ret |-> NoAudio]

Returned(ret) == [raised |-> FALSE, desc |-> "", ret |-> ret]
NoSynth == [raised |-> FALSE, desc |-> "", ret |-> "not called"]

----------------------------------------------------------------------------
\* process_meme

\* Lines 229-232: the synthesizer a selector value runs.
Dispatch(tts_engine) == IF tts_engine = "gTTS" THEN "gTTS" ELSE "ChatTTS"

PathOf(backend) == IF backend = "gTTS" THEN GttsPath ELSE ChatttsPath

\* process_meme without the test of line 224.
ExtractionFailedNever(meme_text) == FALSE

\* Line 224: `not meme_text or meme_text is None`.
ExtractionFailed(meme_text) == ~Truthy(meme_text) \/ meme_text = PyNone

MsgNoImage == <<"**Error:** Please upload an image first.">>
MsgNoText == <<"**Error:** No text found in the image. Please try another image.">>
ExtractedPart(meme_text, lang_code) ==
    <<"**Extracted Text:** ">> \o Fmt(meme_text) \o <<"\n\n**Language:** ">> \o Fmt(lang_code)
AudioFailedNote == <<"\n\n**Error:** Failed to generate audio">>
ExceptionNote(desc) == <<"**Error generating audio:** ", desc, "\n\n">>

\* process_meme reporting a failed synthesis without the extracted text.
process_meme_report_without_text(meme_text, lang_code, synth) ==
    IF synth.raised
    THEN [status |-> ExceptionNote(synth.desc), audio |-> NoAudio]
    ELSE IF synth.ret = NoAudio
    THEN [status |-> AudioFailedNote, audio |-> NoAudio]
    ELSE [status |-> ExtractedPart(meme_text, lang_code), audio |-> synth.ret]

\* Lines 234-247: [status, audio] from what the synthesizer call gave.
process_meme_report(meme_text, lang_code, synth) ==
    IF synth.raised
    THEN [status |-> ExceptionNote(synth.desc) \o ExtractedPart(meme_text, lang_code),
          audio |-> NoAudio]
    ELSE IF synth.ret = NoAudio
    THEN [status |-> ExtractedPart(meme_text, lang_code) \o AudioFailedNote,
          audio |-> NoAudio]
    ELSE [status |-> ExtractedPart(meme_text, lang_code), audio |-> synth.ret]

----------------------------------------------------------------------------
\* State

VARIABLES
    front_end,   \* "serial": one request at a time; "overlapping": submissions overlap;
                 \* "stubbed": serial, the synthesizer call replaced by its outcome
    pc,          \* per invocation: "idle", "extract", "synth", "verify", "done"
    image,       \* "present" | "absent"
    tts_engine,  \* the selector value process_meme was called with
    response,    \* what the model service answered
    meme_text,
    lang_code,
    env,         \* what the outside world decided for the synthesizer call
    synth,       \* what the synthesizer call gave: [raised, desc, ret]
    status,      \* process_meme's first result
    audio,       \* process_meme's second result
    raised,      \* an exception left process_meme
    effects,     \* calls made and files written by the invocation, in order
    alone,       \* no other request was open while this one was
    heard,       \* the file at the returned path when process_meme returned
    fs           \* the audio files in the working directory

vars == <<front_end, pc, image, tts_engine, response, meme_text, lang_code, env,
          synth, status, audio, raised, effects, alone, heard, fs>>

Selectors == {"gTTS", "ChatTTS", "Bark"}

Workers == IF front_end = "overlapping" THEN Procs ELSE {1}

Responses == IF front_end = "overlapping" THEN OverlapResponses ELSE ModelResponses

InitWith(mode) ==
    /\ front_end = mode
    /\ pc = [p \in Procs |-> "idle"]
    /\ image = [p \in Procs |-> "absent"]
    /\ tts_engine = [p \in Procs |-> "gTTS"]
    /\ response = [p \in Procs |-> NoResponse]
    /\ meme_text = [p \in Procs |-> PyNone]
    /\ lang_code = [p \in Procs |-> PyNone]
    /\ env = [p \in Procs |-> NoEnv]
    /\ synth = [p \in Procs |-> NoSynth]
    /\ status = [p \in Procs |-> <<>>]
    /\ audio = [p \in Procs |-> NoAudio]
    /\ raised = [p \in Procs |-> FALSE]
    /\ effects = [p \in Procs |-> <<>>]
    /\ alone = [p \in Procs |-> TRUE]
    /\ heard = [p \in Procs |-> Absent]
    /\ fs = [f \in Paths |-> Absent]

Init == InitWith("serial")

InitOverlap == InitWith("overlapping")

InitStubbed == InitWith("stubbed")

\* process_meme returns [status, audio]; `file` is what its path holds then.
Return(p, result) ==
    /\ pc' = [pc EXCEPT ![p] = "done"]
    /\ status' = [status EXCEPT ![p] = result.status]
    /\ audio' = [audio EXCEPT ![p] = result.audio]
    /\ heard' = [heard EXCEPT ![p] = IF result.audio = NoAudio THEN Absent
                                     ELSE fs'[result.audio]]

\* The front end calls process_meme(image, tts_engine); lines 217-218.
Submit(p, img, engine) ==
    /\ p \in Workers
    /\ pc[p] = "idle"
    /\ front_end = "overlapping" \/ \A q \in Procs : pc[q] = "idle"
    /\ image' = [image EXCEPT ![p] = img]
    /\ tts_engine' = [tts_engine EXCEPT ![p] = engine]
    /\ alone' = [q \in Procs |->
                    IF q = p THEN \A r \in Procs : pc[r] = "idle"
                    ELSE IF pc[q] # "idle" THEN FALSE ELSE alone[q]]
    /\ fs' = fs
    /\ IF img = "absent"
       THEN Return(p, [status |-> MsgNoImage, audio |-> NoAudio])
       ELSE /\ pc' = [pc EXCEPT ![p] = "extract"]
            /\ UNCHANGED <<status, audio, heard>>
    /\ UNCHANGED <<front_end, response, meme_text, lang_code, env, synth, raised, effects>>

\* Lines 221-225: the extractor is called and its text tested.
Extract(p, resp) ==
    /\ pc[p] = "extract"
    /\ LET r == extract_text_from_meme(resp)
       IN  /\ response' = [response EXCEPT ![p] = resp]
           /\ effects' = [effects EXCEPT ![p] = Append(@, "extract")]
           /\ fs' = fs
           /\ IF r.raised
              THEN /\ raised' = [raised EXCEPT ![p] = TRUE]
                   /\ pc' = [pc EXCEPT ![p] = "done"]
                   /\ UNCHANGED <<meme_text, lang_code, status, audio, heard>>
              ELSE /\ meme_text' = [meme_text EXCEPT ![p] = r.text]
                   /\ lang_code' = [lang_code EXCEPT ![p] = r.lang]
                   /\ raised' = raised
                   /\ IF ExtractionFailed(r.text)
                      THEN Return(p, [status |-> MsgNoText, audio |-> NoAudio])
                      ELSE /\ pc' = [pc EXCEPT ![p] = "synth"]
                           /\ UNCHANGED <<status, audio, heard>>
    /\ UNCHANGED <<front_end, image, tts_engine, env, synth, alone>>

\* Lines 229-232 into the synthesizer, through its write (lines 123-139, 168-188).
SynthSave(p, e) ==
    /\ pc[p] = "synth"
    /\ front_end # "stubbed"
    /\ LET backend == Dispatch(tts_engine[p])
           path == PathOf(backend)
           r == IF backend = "gTTS"
                THEN generate_audio_gtts_save(meme_text[p], lang_code[p], e, fs[path])
                ELSE generate_audio_chattts_save(meme_text[p], lang_code[p], e, fs[path])
           caught == IF backend = "gTTS" THEN generate_audio_gtts_except(r.desc)
                     ELSE generate_audio_chattts_except(r.desc)
       IN  /\ env' = [env EXCEPT ![p] = e]
           /\ fs' = [fs EXCEPT ![path] = r.file]
           /\ effects' = [effects EXCEPT ![p] =
                             IF r.file # fs[path] \/ ~r.exc
                             THEN @ \o <<backend, "write">> ELSE Append(@, backend)]
           /\ IF r.exc
              THEN /\ synth' = [synth EXCEPT ![p] = caught]
                   /\ Return(p, process_meme_report(meme_text[p], lang_code[p], caught))
              ELSE /\ pc' = [pc EXCEPT ![p] = "verify"]
                   /\ UNCHANGED <<synth, status, audio, heard>>
    /\ UNCHANGED <<front_end, image, tts_engine, response, meme_text, lang_code,
                   raised, alone>>

\* Lines 141-148 / 190-197, then lines 234-240.
SynthVerify(p) ==
    /\ pc[p] = "verify"
    /\ LET backend == Dispatch(tts_engine[p])
           ret == IF backend = "gTTS" THEN generate_audio_gtts_verify(fs[GttsPath])
                  ELSE generate_audio_chattts_verify(fs[ChatttsPath])
       IN  /\ synth' = [synth EXCEPT ![p] = Returned(ret)]
           /\ fs' = fs
           /\ Return(p, process_meme_report(meme_text[p], lang_code[p], Returned(ret)))
    /\ UNCHANGED <<front_end, image, tts_engine, response, meme_text, lang_code, env,
                   raised, effects, alone>>

\* Lines 228-247 against a synthesizer that is only its outcome: a path, None, or
\* an exception described by desc.
SynthStub(p, outcome) ==
    /\ pc[p] = "synth"
    /\ front_end = "stubbed"
    /\ synth' = [synth EXCEPT ![p] = outcome]
    /\ effects' = [effects EXCEPT ![p] = Append(@, Dispatch(tts_engine[p]))]
    /\ fs' = IF outcome.ret = NoAudio THEN fs
             ELSE [fs EXCEPT ![outcome.ret] = File(<<"audio">>)]
    /\ Return(p, process_meme_report(meme_text[p], lang_code[p], outcome))
    /\ UNCHANGED <<front_end, image, tts_engine, response, meme_text, lang_code, env,
                   raised, alone>>

StubOutcomes(p) ==
    {Returned(PathOf(Dispatch(tts_engine[p]))), Returned(NoAudio),
     [raised |-> TRUE, desc |-> "boom", ret |-> NoAudio]}

\* The front end has rendered the result; the invocation is over.
Render(p) ==
    /\ pc[p] = "done"
    /\ pc' = [pc EXCEPT ![p] = "idle"]
    /\ image' = [image EXCEPT ![p] = "absent"]
    /\ tts_engine' = [tts_engine EXCEPT ![p] = "gTTS"]
    /\ response' = [response EXCEPT ![p] = NoResponse]
    /\ meme_text' = [meme_text EXCEPT ![p] = PyNone]
    /\ lang_code' = [lang_code EXCEPT ![p] = PyNone]
    /\ env' = [env EXCEPT ![p] = NoEnv]
    /\ synth' = [synth EXCEPT ![p] = NoSynth]
    /\ status' = [status EXCEPT ![p] = <<>>]
    /\ audio' = [audio EXCEPT ![p] = NoAudio]
    /\ raised' = [raised EXCEPT ![p] = FALSE]
    /\ effects' = [effects EXCEPT ![p] = <<>>]
    /\ heard' = [heard EXCEPT ![p] = Absent]
    /\ alone' = [alone EXCEPT ![p] = TRUE]
    /\ UNCHANGED <<front_end, fs>>

Next ==
    \/ \E p \in Procs, img \in {"present", "absent"}, engine \in Selectors :
          Submit(p, img, engine)
    \/ \E p \in Procs, resp \in Responses : Extract(p, resp)
    \/ \E p \in Procs, e \in Envs : SynthSave(p, e)
    \/ \E p \in Procs : SynthVerify(p)
    \/ \E p \in Procs : Render(p)

NextStubbed ==
    \/ \E p \in Procs, img \in {"present", "absent"}, engine \in Selectors :
          Submit(p, img, engine)
    \/ \E p \in Procs, resp \in Responses : Extract(p, resp)
    \/ \E p \in Procs : \E outcome \in StubOutcomes(p) : SynthStub(p, outcome)
    \/ \E p \in Procs : Render(p)

\* One request at a time, the real synthesizers.
Spec == Init /\ [][Next]_vars

\* Overlapping requests, the real synthesizers.
SpecOverlap == InitOverlap /\ [][Next]_vars

\* One request at a time, process_meme against every synthesizer outcome.
SpecStubbed == InitStubbed /\ [][NextStubbed]_vars

----------------------------------------------------------------------------
\* Vocabulary of the properties

Done(p) == pc[p] = "done"

\* `part` occurs in `seq` as a run of consecutive pieces.
Contains(seq, part) ==
    \E i \in 0..(Len(seq) - Len(part)) : SubSeq(seq, i + 1, i + Len(part)) = part

EndsWith(seq, part) ==
    /\ Len(part) <= Len(seq)
    /\ SubSeq(seq, Len(seq) - Len(part) + 1, Len(seq)) = part

Backends == {"gTTS", "ChatTTS"}

\* The synthesizers the invocation has called, in order.
SynthCalls(p) == SelectSeq(effects[p], LAMBDA x : x \in Backends)

\* The invocation is past a successful extraction.
Extracted(p) == pc[p] \in {"synth", "verify"} \/ (Done(p) /\ Len(SynthCalls(p)) > 0)

\* A str with a character that is not whitespace.
NonBlank(v) == v.t = "str" /\ \E i \in 1..Len(v.s) : v.s[i] \notin Whitespace

\* The answer carries no caption: no JSON object, or one whose text is not a
\* non-blank string.
NoCaption(resp) == resp.kind # "object" \/ ~NonBlank(resp.obj.text)

Answered(p) == response[p] # NoResponse

----------------------------------------------------------------------------
\* C1: process_meme never raises to its caller: whatever the image, the model's
\* answer, the selector and the synthesizer's outcome (a path, None, an exception),
\* it returns a status made of text and an audio that is None or a file path; an
\* exception of the synthesizer call ends with no audio and a status that holds
\* the exception's description and the extracted text.
C1_NeverRaises ==
    \A p \in Procs :
        /\ ~raised[p]
        /\ Done(p) =>
              /\ status[p] # <<>>
              /\ \A i \in 1..Len(status[p]) : status[p][i] \in STRING
              /\ audio[p] \in Paths \cup {NoAudio}
              /\ synth[p].raised =>
                    /\ audio[p] = NoAudio
                    /\ Contains(status[p], <<synth[p].desc>>)
                    /\ Contains(status[p], ExtractedPart(meme_text[p], lang_code[p]))

C1_Witness ==
    \E p \in Procs :
        /\ Done(p)
        /\ synth[p].raised
        /\ synth[p].desc = "boom"
        /\ tts_engine[p] = "Bark"
        /\ audio[p] = NoAudio

\* C2: when the extraction fails or yields no caption, extract_text_from_meme
\* gives (None, "en") and process_meme ends with the no-text status and no audio,
\* whatever the selector, having called no synthesizer and written no file.
C2_NoCaptionNoAudio ==
    \A p \in Procs :
        (Answered(p) /\ NoCaption(response[p])) =>
            /\ Done(p)
            /\ meme_text[p] = PyNone
            /\ lang_code[p] = PyStr(En)
            /\ status[p] = MsgNoText
            /\ audio[p] = NoAudio
            /\ effects[p] = <<"extract">>

C2_Witness ==
    \E p \in Procs :
        /\ Done(p)
        /\ response[p].kind = "object"
        /\ response[p].obj.text = PyStr(<<" ">>)
        /\ response[p].obj.language = PyStr(Ja)
        /\ tts_engine[p] = "ChatTTS"
        /\ status[p] = MsgNoText

\* C3: after a successful extraction the language code is never None, also
\* when the answer's language field is missing or null.
C3_LanguageNeverNone ==
    \A p \in Procs : Extracted(p) => lang_code[p] # PyNone

\* C4: a selector value that is neither "gTTS" nor "ChatTTS" runs no synthesizer
\* unless the status tells the caller something other than what a declared
\* selector's run tells.
C4_UnknownSelectorNotSilent ==
    \A p \in Procs :
        (Done(p) /\ tts_engine[p] \notin Backends /\ Len(SynthCalls(p)) > 0) =>
            status[p] \notin {ExtractedPart(meme_text[p], lang_code[p]),
                              ExtractedPart(meme_text[p], lang_code[p]) \o AudioFailedNote}

\* C5: an answer with a non-blank text T and a language tag L under the key the
\* model is told to use, language_code, is extracted as (T, L).
C5_LanguageCodeIsRead ==
    \A p \in Procs :
        (/\ Answered(p)
         /\ response[p].kind = "object"
         /\ NonBlank(response[p].obj.text)
         /\ response[p].obj.language_code.t = "str") =>
            /\ meme_text[p] = response[p].obj.text
            /\ lang_code[p] = response[p].obj.language_code

\* No step of the synthesizer call failed: the packages import, the cloud
\* backend knows the language, the write returns and leaves a file.
NoStepFailed(p) ==
    /\ env[p].dep
    /\ Dispatch(tts_engine[p]) = "gTTS" => lang_code[p] \in GttsLanguages
    /\ env[p].save \in {"ok", "empty"}

\* C6: neither synthesizer raises past its boundary: each returns None when a
\* step failed and its path exactly when none did.
C6_SynthesizerNeverRaises ==
    \A p \in Procs :
        /\ ~synth[p].raised
        /\ (Done(p) /\ Len(SynthCalls(p)) > 0) =>
              /\ synth[p].ret \in Paths \cup {NoAudio}
              /\ synth[p].ret # NoAudio <=> NoStepFailed(p)
              /\ synth[p].ret # NoAudio => synth[p].ret = PathOf(Dispatch(tts_engine[p]))

C6_Witness ==
    \E p \in Procs :
        /\ Done(p)
        /\ tts_engine[p] = "ChatTTS"
        /\ SynthCalls(p) = <<"ChatTTS">>
        /\ ~env[p].dep
        /\ synth[p].ret = NoAudio
        /\ EndsWith(status[p], AudioFailedNote)

\* C7 as stated: when process_meme returns an audio path, the file there exists
\* and is not empty.
C7_FileExistsNonEmpty ==
    \A p \in Procs :
        (Done(p) /\ audio[p] # NoAudio) =>
            /\ fs[audio[p]].exists
            /\ fs[audio[p]].data # <<>>

\* C7 as amended: when a synthesizer returns a path, and so when process_meme
\* returns an audio path, the file there exists.
C7_FileExists ==
    \A p \in Procs :
        /\ (Done(p) /\ synth[p].ret \in Paths) => fs[synth[p].ret].exists
        /\ (Done(p) /\ audio[p] # NoAudio) => (audio[p] \in Paths /\ fs[audio[p]].exists)

C7_Witness ==
    \E p \in Procs :
        /\ Done(p)
        /\ audio[p] = GttsPath
        /\ fs[GttsPath] = File(Mp3(meme_text[p]))

\* The audio of a caption, in either container.
AudioOf(text) == {Mp3(text), Wav(text)}

C9_LinearOrder ==
    \A p \in Procs :
        LET calls == SelectSeq(effects[p], LAMBDA x : x # "write")
            b == Dispatch(tts_engine[p])
        IN  /\ calls \in {<<>>, <<"extract">>, <<"extract", b>>}
            /\ calls # <<>> => image[p] = "present"
            /\ Len(calls) = 2 => (Answered(p) /\ NonBlank(meme_text[p]))
            /\ pc[p] \in {"idle", "extract"} => calls = <<>>
            /\ pc[p] = "synth" => calls = <<"extract">>
            /\ pc[p] = "verify" => calls = <<"extract", b>>
            /\ (Done(p) /\ status[p] = MsgNoImage) => calls = <<>>
            /\ (Done(p) /\ status[p] = MsgNoText) => calls = <<"extract">>
            /\ (Done(p) /\ status[p] \notin {MsgNoImage, MsgNoText}) => calls = <<"extract", b>>

C9_Witness ==
    \E p \in Procs :
        /\ Done(p)
        /\ effects[p] = <<"extract", "ChatTTS", "write">>
        /\ tts_engine[p] = "Bark"
        /\ meme_text[p] = PyStr(<<" ", "a">>)

HasNote(st) == EndsWith(st, AudioFailedNote)

WithoutNote(st) ==
    IF HasNote(st) THEN SubSeq(st, 1, Len(st) - Len(AudioFailedNote)) ELSE st

\* C10: two runs with the same extracted text and language have the same
\* extracted-text part of the status, whatever their selectors and synthesis
\* outcomes: the status holds the text and the language, the audio is there
\* exactly without the failure note.
C10_StatusIndependentOfBackend ==
    \A p, q \in Procs :
        (/\ Done(p) /\ Len(SynthCalls(p)) > 0
         /\ Done(q) /\ Len(SynthCalls(q)) > 0
         /\ meme_text[p] = meme_text[q]
         /\ lang_code[p] = lang_code[q]) =>
            /\ WithoutNote(status[p]) = WithoutNote(status[q])
            /\ Contains(status[p], ExtractedPart(meme_text[q], lang_code[q]))
            /\ audio[p] # NoAudio <=> ~HasNote(status[p])

C10_Witness ==
    \E p, q \in Procs :
        /\ Done(p) /\ Done(q)
        /\ tts_engine[p] = "gTTS" /\ tts_engine[q] = "ChatTTS"
        /\ meme_text[p] = PyStr(<<"a">>) /\ meme_text[q] = meme_text[p]
        /\ lang_code[p] = lang_code[q]
        /\ audio[p] = GttsPath
        /\ audio[q] = NoAudio
        /\ HasNote(status[q])

====
